---- MODULE Spec2Model ----
(***************************************************************************)
(* Model of bolt/eval.py: the evaluation metrics errorrate, rmse, cost and *)
(* the dispatcher error, run step by step over the two lazy traversals of  *)
(* a dataset (the model's predictions of the instances, and the labels).   *)
(*                                                                         *)
(* Numbers.  A Python float is modelled as an extended rational            *)
(*     [k |-> kind, num |-> numerator, den |-> denominator]                *)
(* with k one of "fin" (the rational num/den, in lowest terms, den > 0),   *)
(* "pinf", "ninf", "nan" (IEEE +inf, -inf, NaN) and "sqrt" (the positive   *)
(* irrational square root of num/den, the value np.sqrt yields when num/den*)
(* is no perfect square).  Rounding of finite floats is not modelled: the  *)
(* values of the model are small and their sums and products exact.        *)
(***************************************************************************)
EXTENDS Integers, Sequences, FiniteSets, TLC

\* The longest dataset the model enumerates (the two scenarios below are longer).
MaxLen == 2

----------------------------------------------------------------------------
(* Extended rationals *)

Abs(i) == IF i < 0 THEN -i ELSE i

RECURSIVE Gcd(_, _)
Gcd(a, b) == IF b = 0 THEN a ELSE Gcd(b, a % b)

\* The rational n/d (d # 0) in lowest terms with a positive denominator.
Fin(n, d) ==
    LET g == Gcd(Abs(n), Abs(d))
        s == IF d < 0 THEN -1 ELSE 1
    IN  [k |-> "fin", num |-> (s * n) \div g, den |-> (s * d) \div g]

PInf == [k |-> "pinf", num |-> 0, den |-> 1]
NInf == [k |-> "ninf", num |-> 0, den |-> 1]
NaN  == [k |-> "nan", num |-> 0, den |-> 1]
Zero == Fin(0, 1)
One  == Fin(1, 1)

\* np.isinf, np.isnan
IsInf(a) == a.k \in {"pinf", "ninf"}
IsNan(a) == a.k = "nan"

\* -1, 0, 1 for a negative, zero, positive number (NaN has no sign: 0 here,
\* and every user tests IsNan first).
Sign(a) ==
    CASE a.k = "pinf" -> 1
      [] a.k = "ninf" -> -1
      [] a.k = "sqrt" -> 1
      [] a.k = "fin"  -> (IF a.num > 0 THEN 1 ELSE IF a.num < 0 THEN -1 ELSE 0)
      [] OTHER        -> 0

\* IEEE multiplication a * b.
Mul(a, b) ==
    IF IsNan(a) \/ IsNan(b) THEN NaN
    ELSE IF IsInf(a) \/ IsInf(b)
         THEN (IF Sign(a) * Sign(b) > 0 THEN PInf
               ELSE IF Sign(a) * Sign(b) < 0 THEN NInf
               ELSE NaN)
         ELSE Fin(a.num * b.num, a.den * b.den)

\* IEEE addition a + b.
Add(a, b) ==
    IF IsNan(a) \/ IsNan(b) THEN NaN
    ELSE IF IsInf(a) /\ IsInf(b) THEN (IF a.k = b.k THEN a ELSE NaN)
    ELSE IF IsInf(a) THEN a
    ELSE IF IsInf(b) THEN b
    ELSE Fin(a.num * b.den + b.num * a.den, a.den * b.den)

Neg(a) ==
    CASE a.k = "pinf" -> NInf
      [] a.k = "ninf" -> PInf
      [] a.k = "nan"  -> NaN
      [] OTHER        -> Fin(-a.num, a.den)

\* IEEE subtraction a - b.
Sub(a, b) == Add(a, Neg(b))

\* a ** 2.0
Pow2(a) == Mul(a, a)

\* The comparisons of the code; every comparison with NaN is False.
LeZero(a) == ~IsNan(a) /\ Sign(a) <= 0
LtOne(a) == ~IsNan(a) /\ (a.k = "ninf" \/ (a.k = "fin" /\ a.num < a.den))

\* The integer square root of a perfect square, and -1 for any other number.
ExactRoot(i) ==
    IF i < 0 THEN -1
    ELSE LET roots == {r \in 0..i : r * r = i}
         IN  IF roots = {} THEN -1 ELSE CHOOSE r \in roots : TRUE

\* np.sqrt(a): NaN for NaN and for a negative number, +inf for +inf.
Sqrt(a) ==
    CASE a.k = "nan"  -> NaN
      [] a.k = "ninf" -> NaN
      [] a.k = "pinf" -> PInf
      [] a.k = "sqrt" -> NaN
      [] OTHER ->
           IF a.num < 0 THEN NaN
           ELSE IF ExactRoot(a.num) >= 0 /\ ExactRoot(a.den) >= 0
                THEN Fin(ExactRoot(a.num), ExactRoot(a.den))
                ELSE [k |-> "sqrt", num |-> a.num, den |-> a.den]

----------------------------------------------------------------------------
(* Outcomes of a call: a returned value or a raised exception *)

None == [k |-> "none", num |-> 0, den |-> 1]

NoOutcome == [kind |-> "none", val |-> None, msg |-> ""]
Value(v) == [kind |-> "value", val |-> v, msg |-> ""]
Raise(exc, m) == [kind |-> exc, val |-> None, msg |-> m]

\* Faulty variant of TrueDiv: a division guarded against n = 0.
TrueDivGuarded(a, n) ==
    IF n = 0 THEN Value(Zero) ELSE Value(Mul(a, Fin(1, n)))

\* a / n under `from __future__ import division`, n an int: true division,
\* ZeroDivisionError when n is 0.
TrueDiv(a, n) ==
    IF n = 0 THEN Raise("ZeroDivisionError", "division by zero")
    ELSE Value(Mul(a, Fin(1, n)))

----------------------------------------------------------------------------
(* The collaborators: loss functions, the model and the dataset *)

\* A loss function: its category tags (isinstance of bolt.Classification, of
\* bolt.Regression) and the function its loss method computes.
Losses ==
    { [cls |-> TRUE,  reg |-> FALSE, f |-> "hinge"],
      [cls |-> FALSE, reg |-> TRUE,  f |-> "squared"],
      [cls |-> FALSE, reg |-> FALSE, f |-> "hinge"],
      [cls |-> TRUE,  reg |-> TRUE,  f |-> "squared"] }

NoLoss == [cls |-> FALSE, reg |-> FALSE, f |-> "none"]

\* loss.loss(p, y): the hinge loss max(0, 1 - p*y), the squared error
\* 0.5 * (p - y)^2.
LossValue(l, p, y) ==
    IF l.f = "hinge"
    THEN (IF LtOne(Mul(p, y)) THEN Sub(One, Mul(p, y)) ELSE Zero)
    ELSE Mul(Fin(1, 2), Mul(Sub(p, y), Sub(p, y)))

\* The labels of a binary classification dataset, and the predictions the
\* model yields for an instance.
Labels == {Fin(-1, 1), Fin(1, 1)}
PredValues == {Fin(-1, 1), Zero, Fin(1, 1), PInf, NInf, NaN}

\* The scenarios of the specification's section 8.
ScenarioLabels == <<Fin(1, 1), Fin(-1, 1), Fin(1, 1), Fin(-1, 1)>>
ScenarioPreds == <<Fin(1, 2), Fin(1, 2), Fin(-1, 2), Fin(-1, 2)>>

\* A dataset with the model's predictions of its instances: the i-th
\* prediction belongs to the i-th label, and the two traversals have one
\* length (Dataset.iterinstances and Dataset.iterlabels run over the same
\* examples, and predict yields one prediction per instance).
Datasets ==
    { [preds |-> ps, labels |-> ls] :
        <<ps, ls>> \in UNION { [1..m -> PredValues] \X [1..m -> Labels] : m \in 0..MaxLen } }
    \cup { [preds |-> ScenarioPreds, labels |-> ScenarioLabels],
           [preds |-> ScenarioLabels, labels |-> ScenarioLabels] }

----------------------------------------------------------------------------
(* The state *)

VARIABLES
    preds,      \* the predictions model.predict yields, in order
    labels,     \* the labels ds.iterlabels yields, in order
    op,         \* the function the caller called
    loss,       \* its loss argument (NoLoss for errorrate and rmse)
    fn,         \* the function that is executing
    pc,         \* where it is
    ip,         \* instances (predictions) consumed from the first traversal
    il,         \* labels consumed from the second traversal
    opened,     \* how often the call started each traversal
    p, y,       \* the loop variables
    n, err,     \* the locals of errorrate and of rmse
    cost,       \* the local of cost
    errOut,     \* the local err of error
    lossCalls,  \* invocations of loss.loss by the call
    pairs,      \* history: the (p, y) pairs the loop body has seen, in order
    result,     \* the outcome of the call
    direct      \* history: the outcome of the caller's last own call of each metric

vars == <<preds, labels, op, loss, fn, pc, ip, il, opened, p, y, n, err, cost,
          errOut, lossCalls, pairs, result, direct>>

Init ==
    /\ \E ds \in Datasets : preds = ds.preds /\ labels = ds.labels
    /\ op = "none" /\ loss = NoLoss /\ fn = "none" /\ pc = "idle"
    /\ ip = 0 /\ il = 0 /\ opened = [inst |-> 0, lab |-> 0]
    /\ p = None /\ y = None
    /\ n = 0 /\ err = Zero /\ cost = Zero /\ errOut = None
    /\ lossCalls = 0 /\ pairs = <<>>
    /\ result = NoOutcome
    /\ direct = [errorrate |-> NoOutcome, rmse |-> NoOutcome]

----------------------------------------------------------------------------
(* The code, step by step *)

\* next() of model.predict(ds.iterinstances()) and of ds.iterlabels() at
\* position pos: whether the traversal yields, what, and its new position.
PredictNext(pos) ==
    IF pos < Len(preds)
    THEN [more |-> TRUE, item |-> preds[pos + 1], pos |-> pos + 1]
    ELSE [more |-> FALSE, item |-> None, pos |-> pos]

\* Faulty variant of LabelsNext: the label traversal is started anew at each
\* step and never advances.
LabelsNextStuck(pos) ==
    IF 0 < Len(labels)
    THEN [more |-> TRUE, item |-> labels[1], pos |-> 0]
    ELSE [more |-> FALSE, item |-> None, pos |-> pos]

LabelsNext(pos) ==
    IF pos < Len(labels)
    THEN [more |-> TRUE, item |-> labels[pos + 1], pos |-> pos + 1]
    ELSE [more |-> FALSE, item |-> None, pos |-> pos]

\* Faulty variants of IsError: z < 0 for z <= 0; no test of np.isinf; the
\* sign of the prediction alone.
IsErrorStrict(pv, yv) ==
    LET z == Mul(pv, yv)
    IN  IsInf(pv) \/ IsNan(pv) \/ (~IsNan(z) /\ Sign(z) < 0)

IsErrorNoInf(pv, yv) ==
    LET z == Mul(pv, yv)
    IN  IsNan(pv) \/ LeZero(z)

IsErrorIgnoresLabel(pv, yv) ==
    IsInf(pv) \/ IsNan(pv) \/ LeZero(pv)

\* errorrate: z = p*y; np.isinf(p) or np.isnan(p) or z <= 0
IsError(pv, yv) ==
    LET z == Mul(pv, yv)
    IN  IsInf(pv) \/ IsNan(pv) \/ LeZero(z)

\* errorrate: errrate = err / n; return errrate * 100.0
ErrorrateResult(e, cnt) ==
    LET errrate == TrueDiv(e, cnt)
    IN  IF errrate.kind = "value"
        THEN Value(Mul(errrate.val, Fin(100, 1)))
        ELSE errrate

\* Faulty variant of SquaredError: the difference, not squared.
SquaredErrorNoSquare(pv, yv) == Sub(pv, yv)

\* rmse: (p-y)**2.0
SquaredError(pv, yv) == Pow2(Sub(pv, yv))

\* rmse: err /= n; return np.sqrt(err)
RmseResult(e, cnt) ==
    LET mean == TrueDiv(e, cnt)
    IN  IF mean.kind = "value" THEN Value(Sqrt(mean.val)) ELSE mean

\* Faulty variant of CostAccumulate: = for +=.
CostOverwrite(c, lv) == lv

\* cost: cost += loss.loss(p,y)
CostAccumulate(c, lv) == Add(c, lv)

\* Faulty variants of Dispatch: the two metrics exchanged; rmse as the
\* default; Regression tested first.
DispatchSwapped(l) ==
    IF l.cls THEN "rmse"
    ELSE IF l.reg THEN "errorrate"
    ELSE "ValueError"

DispatchDefaultRmse(l) ==
    IF l.cls THEN "errorrate" ELSE "rmse"

DispatchRegressionFirst(l) ==
    IF l.reg THEN "rmse"
    ELSE IF l.cls THEN "errorrate"
    ELSE "ValueError"

\* error: the isinstance chain; the function delegated to, or "ValueError".
Dispatch(l) ==
    IF l.cls THEN "errorrate"
    ELSE IF l.reg THEN "rmse"
    ELSE "ValueError"

\* The first lines of errorrate, rmse and cost: the locals, and the izip
\* over the two traversals, each started once more than `before`.
EnterLoop(f, before) ==
    /\ fn' = f
    /\ n' = 0 /\ err' = Zero /\ cost' = Zero
    /\ ip' = 0 /\ il' = 0
    /\ opened' = [inst |-> before.inst + 1, lab |-> before.lab + 1]
    /\ p' = None /\ y' = None
    /\ pc' = "nextp"

NotOpened == [inst |-> 0, lab |-> 0]

\* The caller calls f(model, ds[, l]); a call starts when none is running.
Call(f, l) ==
    /\ pc \in {"idle", "done"}
    /\ op' = f /\ loss' = l
    /\ lossCalls' = 0 /\ pairs' = <<>> /\ result' = NoOutcome
    /\ UNCHANGED <<preds, labels, direct>>

CallErrorrate ==
    /\ Call("errorrate", NoLoss)
    /\ EnterLoop("errorrate", NotOpened)
    /\ errOut' = None

CallRmse ==
    /\ Call("rmse", NoLoss)
    /\ EnterLoop("rmse", NotOpened)
    /\ errOut' = None

CallCost ==
    \E l \in Losses :
        /\ Call("cost", l)
        /\ EnterLoop("cost", NotOpened)
        /\ errOut' = None

\* error: err = 0.0
CallError ==
    \E l \in Losses :
        /\ Call("error", l)
        /\ fn' = "error" /\ pc' = "dispatch"
        /\ errOut' = Zero
        /\ n' = 0 /\ err' = Zero /\ cost' = Zero
        /\ ip' = 0 /\ il' = 0 /\ opened' = NotOpened
        /\ p' = None /\ y' = None

\* error: the isinstance chain, the call of errorrate or rmse, or the raise.
ErrorDispatch ==
    /\ pc = "dispatch" /\ fn = "error"
    /\ IF Dispatch(loss) \in {"errorrate", "rmse"}
       THEN /\ EnterLoop(Dispatch(loss), opened)
            /\ UNCHANGED result
       ELSE /\ result' = Raise("ValueError",
                   "lm.loss: either Regression or Classification loss expected")
            /\ pc' = "done"
            /\ UNCHANGED <<fn, n, err, cost, ip, il, opened, p, y>>
    /\ UNCHANGED <<preds, labels, op, loss, errOut, lossCalls, pairs, direct>>

\* What a function's return or raise does: the caller's own call ends with
\* the outcome; inside error a value is assigned to err, and an exception
\* propagates through error to the caller.
Finish(outcome) ==
    IF op = "error" /\ outcome.kind = "value"
    THEN /\ errOut' = outcome.val
         /\ fn' = "error" /\ pc' = "ret"
         /\ UNCHANGED <<result, direct>>
    ELSE /\ result' = outcome
         /\ pc' = "done"
         /\ direct' = IF op \in {"errorrate", "rmse"}
                      THEN [direct EXCEPT ![op] = outcome]
                      ELSE direct
         /\ UNCHANGED <<errOut, fn>>

\* izip: next() of the predictions first; exhausted, the loop ends.
NextPred ==
    /\ pc = "nextp"
    /\ LET r == PredictNext(ip)
       IN  IF r.more
           THEN /\ p' = r.item /\ ip' = r.pos /\ pc' = "nexty"
           ELSE /\ pc' = "after" /\ UNCHANGED <<p, ip>>
    /\ UNCHANGED <<preds, labels, op, loss, fn, il, opened, y, n, err, cost,
                   errOut, lossCalls, pairs, result, direct>>

\* izip: then next() of the labels; exhausted, the loop ends.
NextLabel ==
    /\ pc = "nexty"
    /\ LET r == LabelsNext(il)
       IN  IF r.more
           THEN /\ y' = r.item /\ il' = r.pos /\ pc' = "body"
           ELSE /\ pc' = "after" /\ UNCHANGED <<y, il>>
    /\ UNCHANGED <<preds, labels, op, loss, fn, ip, opened, p, n, err, cost,
                   errOut, lossCalls, pairs, result, direct>>

ErrorrateBody ==
    /\ pc = "body" /\ fn = "errorrate"
    /\ err' = IF IsError(p, y) THEN Add(err, One) ELSE err
    /\ n' = n + 1
    /\ pairs' = Append(pairs, <<p, y>>)
    /\ pc' = "nextp"
    /\ UNCHANGED <<preds, labels, op, loss, fn, ip, il, opened, p, y, cost,
                   errOut, lossCalls, result, direct>>

ErrorrateReturn ==
    /\ pc = "after" /\ fn = "errorrate"
    /\ Finish(ErrorrateResult(err, n))
    /\ UNCHANGED <<preds, labels, op, loss, ip, il, opened, p, y, n, err, cost,
                   lossCalls, pairs>>

RmseBody ==
    /\ pc = "body" /\ fn = "rmse"
    /\ err' = Add(err, SquaredError(p, y))
    /\ n' = n + 1
    /\ pairs' = Append(pairs, <<p, y>>)
    /\ pc' = "nextp"
    /\ UNCHANGED <<preds, labels, op, loss, fn, ip, il, opened, p, y, cost,
                   errOut, lossCalls, result, direct>>

RmseReturn ==
    /\ pc = "after" /\ fn = "rmse"
    /\ Finish(RmseResult(err, n))
    /\ UNCHANGED <<preds, labels, op, loss, ip, il, opened, p, y, n, err, cost,
                   lossCalls, pairs>>

CostBody ==
    /\ pc = "body" /\ fn = "cost"
    /\ cost' = CostAccumulate(cost, LossValue(loss, p, y))
    /\ lossCalls' = lossCalls + 1
    /\ pairs' = Append(pairs, <<p, y>>)
    /\ pc' = "nextp"
    /\ UNCHANGED <<preds, labels, op, loss, fn, ip, il, opened, p, y, n, err,
                   errOut, result, direct>>

CostReturn ==
    /\ pc = "after" /\ fn = "cost"
    /\ Finish(Value(cost))
    /\ UNCHANGED <<preds, labels, op, loss, ip, il, opened, p, y, n, err, cost,
                   lossCalls, pairs>>

\* error: return err
ErrorReturn ==
    /\ pc = "ret" /\ fn = "error"
    /\ result' = Value(errOut)
    /\ pc' = "done"
    /\ UNCHANGED <<preds, labels, op, loss, fn, ip, il, opened, p, y, n, err,
                   cost, errOut, lossCalls, pairs, direct>>

Next ==
    \/ CallErrorrate \/ CallRmse \/ CallCost \/ CallError
    \/ ErrorDispatch
    \/ NextPred \/ NextLabel
    \/ ErrorrateBody \/ ErrorrateReturn
    \/ RmseBody \/ RmseReturn
    \/ CostBody \/ CostReturn
    \/ ErrorReturn

Spec == Init /\ [][Next]_vars

TypeOK ==
    /\ pc \in {"idle", "dispatch", "nextp", "nexty", "body", "after", "ret", "done"}
    /\ op \in {"none", "errorrate", "rmse", "cost", "error"}
    /\ fn \in {"none", "errorrate", "rmse", "cost", "error"}
    /\ Len(preds) = Len(labels)
    /\ n \in Nat /\ ip \in Nat /\ il \in Nat /\ lossCalls \in Nat

----------------------------------------------------------------------------
(* The claims *)

Indices == 1..Len(preds)
Returned == pc = "done" /\ result.kind = "value"
Neither == ~loss.cls /\ ~loss.reg
\* a > 0 and a >= 0, False for NaN
GtZero(a) == a.k # "nan" /\ Sign(a) > 0
GeZero(a) == a.k # "nan" /\ Sign(a) >= 0

\* C1: on a non-empty dataset errorrate returns 100.0 * (err / n), n the
\* number of pairs consumed and err the number of pairs with p*y <= 0 or p
\* infinite or p not-a-number; labels [1,-1,1,-1] with predictions
\* [0.5,0.5,-0.5,-0.5] give 50.0.
C1_Errors ==
    Cardinality({i \in Indices :
        \/ LeZero(Mul(preds[i], labels[i]))
        \/ preds[i].k \in {"pinf", "ninf"}
        \/ preds[i].k = "nan"})

C3_EmptyDataset ==
    (pc = "done" /\ Len(preds) = 0) =>
        /\ op \in {"errorrate", "rmse"} => result.kind = "ZeroDivisionError"
        /\ op = "error" /\ ~Neither => result.kind = "ZeroDivisionError"
        /\ op = "cost" => result = Value(Zero)

C3_Witness ==
    /\ pc = "done" /\ Len(preds) = 0 /\ op = "cost" /\ result = Value(Zero)
    /\ direct.errorrate.kind = "ZeroDivisionError"
    /\ direct.rmse.kind = "ZeroDivisionError"

\* C4: error with a Classification loss ends as errorrate does on the same
\* model and dataset, with a Regression loss as rmse does, and never invokes
\* loss.loss.
C4_ErrorDispatches ==
    /\ op = "error" => lossCalls = 0
    /\ (pc = "done" /\ op = "error") =>
        /\ (loss.cls /\ ~loss.reg /\ direct.errorrate # NoOutcome)
              => result = direct.errorrate
        /\ (loss.reg /\ ~loss.cls /\ direct.rmse # NoOutcome)
              => result = direct.rmse

C4_Witness ==
    /\ pc = "done" /\ op = "error" /\ loss.reg /\ ~loss.cls
    /\ Len(preds) > 0
    /\ direct.rmse.kind = "value" /\ result = direct.rmse
    /\ direct.errorrate.kind = "value" /\ result # direct.errorrate

\* C5: error with a loss that is neither a Classification nor a Regression
\* ends with a ValueError whose message names the two categories, and
\* returns no value.
C5_ValueError ==
    (op = "error" /\ Neither) =>
        /\ result.kind # "value"
        /\ pc = "done" =>
             result = Raise("ValueError",
                 "lm.loss: either Regression or Classification loss expected")

C5_Witness ==
    /\ pc = "done" /\ op = "error" /\ Neither /\ result.kind = "ValueError"

\* C6: cost returns the sum of loss.loss(p, y) over the pairs in order,
\* starting from 0 and not divided by the number of pairs, whatever the
\* category tags of the loss (a loss of neither category included).
RECURSIVE C6_SumTo(_)
C6_SumTo(i) ==
    IF i = 0 THEN Zero
    ELSE Add(C6_SumTo(i - 1),
             LossValue([cls |-> FALSE, reg |-> FALSE, f |-> loss.f],
                       preds[i], labels[i]))

C6_CostIsSum ==
    (pc = "done" /\ op = "cost") =>
        /\ result = Value(C6_SumTo(Len(preds)))
        /\ lossCalls = Len(preds)
        /\ pairs = [i \in Indices |-> <<preds[i], labels[i]>>]

C6_Witness ==
    /\ pc = "done" /\ op = "cost" /\ Neither
    /\ Len(preds) = 2
    /\ result.kind = "value" /\ result.val = Fin(3, 1)

\* C7: when every prediction is finite and has the sign of its label, the
\* error rate that errorrate returns is 0.0.
C7_AllCorrect ==
    (/\ Returned /\ op = "errorrate"
     /\ \A i \in Indices :
            preds[i].k = "fin" /\ Sign(preds[i]) = Sign(labels[i]))
      => result.val = Zero

C7_Witness ==
    /\ Returned /\ op = "errorrate" /\ result.val = Zero
    /\ preds = <<Fin(1, 1), Fin(-1, 1)>> /\ labels = preds

\* C8 as stated: whatever the dataset, the value rmse returns is >= 0, and
\* it is 0 exactly when every prediction equals its label.
C8_AsStated ==
    (Returned /\ op = "rmse") =>
        /\ GeZero(result.val)
        /\ result.val = Zero <=> \A i \in Indices : preds[i] = labels[i]

\* C8: when no prediction is NaN, the value rmse returns is >= 0; for every
\* dataset it is 0 exactly when every prediction equals its label; with a
\* NaN prediction it is NaN.
C8_Rmse ==
    (Returned /\ op = "rmse") =>
        /\ (\A i \in Indices : preds[i].k # "nan") => GeZero(result.val)
        /\ (\E i \in Indices : preds[i].k = "nan") => result.val = NaN
        /\ result.val = Zero <=> \A i \in Indices : preds[i] = labels[i]

C8_Witness ==
    /\ Returned /\ op = "rmse" /\ result.val = Zero
    /\ preds = ScenarioLabels /\ labels = ScenarioLabels

\* C9: in a call of errorrate, rmse or cost each traversal is started once;
\* at each step the prediction is pulled first and then the label, the i-th
\* prediction meets the i-th label, and after the loop both traversals have
\* been consumed to the same length, that of the dataset.
C9_Lockstep ==
    fn \in {"errorrate", "rmse", "cost"} =>
        /\ opened = [inst |-> 1, lab |-> 1]
        /\ il <= ip /\ ip <= il + 1
        /\ ip = il + 1 <=> pc = "nexty"
        /\ \A i \in 1..Len(pairs) : pairs[i] = <<preds[i], labels[i]>>
        /\ Len(pairs) = n \/ fn = "cost"
        /\ pc = "body" => /\ Len(pairs) = il - 1
                          /\ p = preds[il] /\ y = labels[il]
        /\ pc \in {"nextp", "after", "done"} => Len(pairs) = il
        /\ pc \in {"after", "done"} => ip = il /\ il = Len(labels)

C9_Witness ==
    /\ pc = "done" /\ op = "cost" /\ ip = 2 /\ il = 2
    /\ pairs = <<<<preds[1], labels[1]>>, <<preds[2], labels[2]>>>>
    /\ preds[1] # preds[2] /\ labels[1] # labels[2]

\* C10: error tests the category before it touches the dataset: with a loss
\* of neither category it raises the ValueError with nothing consumed, also
\* on an empty dataset; a loss of both categories goes to errorrate.
C10_CheckFirst ==
    /\ pc = "dispatch" => opened = NotOpened /\ ip = 0 /\ il = 0
    /\ (op = "error" /\ Neither) =>
         /\ opened = NotOpened /\ ip = 0 /\ il = 0 /\ pairs = <<>>
         /\ pc = "done" => result.kind = "ValueError"
    /\ (op = "error" /\ loss.cls /\ loss.reg) =>
         /\ fn \in {"error", "errorrate"}
         /\ (pc = "done" /\ direct.errorrate # NoOutcome)
               => result = direct.errorrate

C10_Witness ==
    /\ pc = "done" /\ op = "error" /\ loss.cls /\ loss.reg
    /\ Len(preds) > 0
    /\ direct.errorrate.kind = "value" /\ result = direct.errorrate
    /\ direct.rmse.kind = "value" /\ result # direct.rmse

====
